---------------------------- MODULE Spec2Model ----------------------------
(***************************************************************************)
(* Model of the Conto Termico 3.0 calculation core (src/app2.py): the six  *)
(* incentive calculators, their lookup tables and the caller wrapper       *)
(* _safe_run.                                                              *)
(*                                                                         *)
(* Numbers.  Python floats are modelled as exact rationals <<n, d>> in     *)
(* lowest terms with d > 0; binary representation error is modelled only   *)
(* where it decides a comparison (area_mismatch).                          *)
(* _round2 rounds the exact value to whole cents, ties to even, which is   *)
(* what f"{x:.2f}" does on the value it is given.  The input sets below    *)
(* are chosen so that no amount falls exactly on a half cent, where the    *)
(* float's representation error would decide the direction; on every       *)
(* invocation of the model the fields equal those the code computes        *)
(* (stoves up to the three-decimal logarithm table).                       *)
(* Optional values: None is the empty set, a present value v is {v}.       *)
(* A call either returns or raises: [raised |-> FALSE, val |-> v] or       *)
(* [raised |-> TRUE, exc |-> class, msg |-> text].                         *)
(***************************************************************************)
EXTENDS Integers, Sequences, FiniteSets, TLC

VARIABLES
    PDC_Quf, BIOMASS_HR, SOLAR_CI,  \* the module-level lookup tables
    pc,      \* "idle": waiting for a button; "returned": _safe_run has returned
    fn,      \* the calculator invoked
    args,    \* its arguments
    ret,     \* how the calculator ended: a frame returned or an exception raised
    out,     \* the pair _safe_run returned
    base,    \* after calc_ibrido: the heat-pump Result it was built on
    memo     \* an earlier invocation and its outcome, kept for comparison

vars == <<PDC_Quf, BIOMASS_HR, SOLAR_CI, pc, fn, args, ret, out, base, memo>>

tables == <<PDC_Quf, BIOMASS_HR, SOLAR_CI>>

-----------------------------------------------------------------------------
(* Exact rational arithmetic standing for float arithmetic.                *)

Abs(x) == IF x < 0 THEN -x ELSE x

RECURSIVE GCD(_, _)
GCD(a, b) == IF b = 0 THEN a ELSE GCD(b, a % b)

\* n/d in lowest terms, d > 0
Rat(n, d) == LET g == GCD(Abs(n), d) IN <<n \div g, d \div g>>

Flt(n) == <<n, 1>>

\* a decimal literal with the given number of fractional digits
Tenths(n) == Rat(n, 10)
Hundredths(n) == Rat(n, 100)
Thousandths(n) == Rat(n, 1000)

RMul(a, b) ==
    LET g1 == GCD(Abs(a[1]), b[2])
        g2 == GCD(Abs(b[1]), a[2])
    IN  Rat((a[1] \div g1) * (b[1] \div g2), (a[2] \div g2) * (b[2] \div g1))

RInv(b) == IF b[1] > 0 THEN <<b[2], b[1]>> ELSE <<-b[2], -b[1]>>

RDiv(a, b) == RMul(a, RInv(b))

RAdd(a, b) ==
    LET g == GCD(a[2], b[2])
    IN  Rat(a[1] * (b[2] \div g) + b[1] * (a[2] \div g), (a[2] \div g) * b[2])

RNeg(a) == <<-a[1], a[2]>>

RSub(a, b) == RAdd(a, RNeg(b))

RAbs(a) == <<Abs(a[1]), a[2]>>

RLt(a, b) == RSub(a, b)[1] < 0

RLe(a, b) == RSub(a, b)[1] <= 0

RMin(a, b) == IF RLe(a, b) THEN a ELSE b

-----------------------------------------------------------------------------
(* Python values                                                           *)

None == {}

Some(v) == {v}

Get(o) == CHOOSE v \in o : TRUE

Raise(exc, msg) == [raised |-> TRUE, exc |-> exc, msg |-> msg]

Return(v) == [raised |-> FALSE, val |-> v]

Note(text, values) == [text |-> text, values |-> values]

\* str.lower().strip() on the tags the model passes: the decorated spellings
\* normalise to the table keys, every other tag is already lower-case and bare
lower_strip(s) ==
    CASE s = " Aria_Acqua " -> "aria_acqua"
      [] s = "CALDAIA" -> "caldaia"
      [] s = " ACS" -> "acs"
      [] s = "acs_risc_bassaT_rete" -> "acs_risc_bassat_rete"
      [] s = "Bivalente_Addon " -> "bivalente_addon"
      [] s = "A_Mono" -> "a_mono"
      [] OTHER -> s

-----------------------------------------------------------------------------
(* Helpers                                                                 *)

\* round half to even on the exact value, in whole cents
_round2_cents(x) ==
    LET y == RMul(x, Flt(100))
        q == y[1] \div y[2]
        r == y[1] % y[2]
    IN  IF 2 * r < y[2] THEN q
        ELSE IF 2 * r > y[2] THEN q + 1
        ELSE IF q % 2 = 0 THEN q ELSE q + 1

_round2(x) == Rat(_round2_cents(x), 100)

_annualities_by_threshold_strict(value_eur, default_n) ==
    IF RLt(value_eur, Flt(15000)) THEN 1 ELSE default_n

_annualities_by_threshold(value_eur, default_n) ==
    IF RLe(value_eur, Flt(15000)) THEN 1 ELSE default_n

_band_index_sl(sl_m2) ==
    IF RLe(sl_m2, Flt(12)) THEN 0
    ELSE IF RLe(sl_m2, Flt(50)) THEN 1
    ELSE IF RLe(sl_m2, Flt(200)) THEN 2
    ELSE IF RLe(sl_m2, Flt(500)) THEN 3
    ELSE 4

\* the payment block of the four generator calculators:
\*   itot = ia * default_n; n_rates = _annualities_by_threshold(itot, default_n)
\*   annual_rate = itot / n_rates
\* and the three rounded amounts handed to Result
Installments_no_collapse(ia, default_n) ==
    LET itot == RMul(ia, Flt(default_n))
        n_rates == _annualities_by_threshold(itot, default_n)
        annual_rate == RDiv(itot, Flt(n_rates))
    IN  [ia |-> ia, itot |-> itot, default_n |-> default_n, n_rates |-> n_rates,
         annual_incentive_eur |-> _round2(ia),
         total_incentive_eur |-> _round2(itot),
         annual_rate_eur |-> _round2(annual_rate)]

Installments(ia, default_n) ==
    LET itot == RMul(ia, Flt(default_n))
        n_rates == _annualities_by_threshold(itot, default_n)
        annual_rate == RDiv(itot, Flt(n_rates))
    IN  [ia |-> ia, itot |-> itot, default_n |-> default_n, n_rates |-> n_rates,
         annual_incentive_eur |-> _round2(IF n_rates # 1 THEN ia ELSE itot),
         total_incentive_eur |-> _round2(itot),
         annual_rate_eur |-> _round2(annual_rate)]

\* the payment block of the two add-on calculators, whose default is the
\* fixed fallback 2; they have no ia, the unrounded annual amount is annual_rate
AddonInstallments(itot) ==
    LET n_rates == _annualities_by_threshold(itot, 2)
        annual_rate == RDiv(itot, Flt(n_rates))
    IN  [ia |-> annual_rate, itot |-> itot, default_n |-> 2, n_rates |-> n_rates,
         annual_incentive_eur |-> _round2(IF n_rates # 1 THEN annual_rate ELSE itot),
         total_incentive_eur |-> _round2(itot),
         annual_rate_eur |-> _round2(annual_rate)]

\* dataclass Result
Result(intervention, inst, details, notes) ==
    [intervention |-> intervention,
     annual_incentive_eur |-> inst.annual_incentive_eur,
     total_incentive_eur |-> inst.total_incentive_eur,
     n_rates |-> inst.n_rates,
     annual_rate_eur |-> inst.annual_rate_eur,
     details |-> details,
     notes |-> notes]

\* what a calculator holds when it returns: the Result it built and its locals
Frame(result, inst) ==
    [result |-> result, ia |-> inst.ia, itot |-> inst.itot, default_n |-> inst.default_n]

\* the ceiling of the add-ons: the advisory is appended when the ceiling binds
imax_notes_le(notes, itot, itot_raw) ==
    IF RLe(itot, itot_raw)
    THEN Append(notes, Note("Applicato vincolo Imax = Itot generatore (PDC).", <<>>))
    ELSE notes

imax_notes(notes, itot, itot_raw) ==
    IF RLt(itot, itot_raw)
    THEN Append(notes, Note("Applicato vincolo Imax = Itot generatore (PDC).", <<>>))
    ELSE notes

-----------------------------------------------------------------------------
(* Heat pumps                                                              *)

PDC_Quf_table ==
    [A |-> 600, B |-> 850, C |-> 1100, D |-> 1400, E |-> 1700, F |-> 1800]

\* a family priced in two power bands, split at 35 kW
pdc_ci_band_strict(p, low, high) == IF RLt(p, Flt(35)) THEN Return(low) ELSE Return(high)

pdc_ci_band(p, low, high) == IF RLe(p, Flt(35)) THEN Return(low) ELSE Return(high)

\* a family the table covers up to 12 kW only
pdc_ci_ceiling_ge(p, ci, msg) ==
    IF RLe(Flt(12), p) THEN Raise("ValueError", msg) ELSE Return(ci)

pdc_ci_ceiling(p, ci, msg) ==
    IF RLt(Flt(12), p) THEN Raise("ValueError", msg) ELSE Return(ci)

pdc_ci(pdc_type, prated_kw) ==
    LET p == prated_kw
        t == lower_strip(pdc_type)
    IN  CASE t = "aria_aria_split" ->
               pdc_ci_ceiling(p, Thousandths(70),
                   "aria_aria_split valido solo per Prated <= 12 kW (Tabella 9).")
          [] t = "fixed_double_duct" ->
               pdc_ci_ceiling(p, Thousandths(200),
                   "fixed_double_duct: in Tabella 9 e' riportato con split/multisplit <= 12 kW.")
          [] t = "aria_aria_vrf" -> pdc_ci_band(p, Thousandths(150), Thousandths(55))
          [] t = "aria_aria_rooftop" -> pdc_ci_band(p, Thousandths(150), Thousandths(55))
          [] t = "aria_acqua" -> pdc_ci_band(p, Thousandths(150), Thousandths(60))
          [] t = "acqua_aria" -> pdc_ci_band(p, Thousandths(160), Thousandths(60))
          [] t = "acqua_acqua" -> pdc_ci_band(p, Thousandths(160), Thousandths(60))
          [] t = "salamoia_aria" -> pdc_ci_band(p, Thousandths(160), Thousandths(60))
          [] t = "salamoia_acqua" -> pdc_ci_band(p, Thousandths(160), Thousandths(60))
          [] OTHER -> Raise("ValueError", "Tipo PDC non riconosciuto")

\* calc_pdc_elettrica taking the caller's kp on the fixed_double_duct branch too
calc_pdc_elettrica_caller_kp(zone, pdc_type, prated_kw, scop, kp, cop35) ==
    IF zone \notin DOMAIN PDC_Quf THEN Raise("KeyError", zone)
    ELSE
    LET q_u == RMul(prated_kw, Flt(PDC_Quf[zone]))
        ci_r == pdc_ci(pdc_type, prated_kw)
        Finish(ci, e_i, notes) ==
            LET ia == RMul(e_i, ci)
                default_n == IF RLe(prated_kw, Flt(35)) THEN 2 ELSE 5
                inst == Installments(ia, default_n)
            IN  Return(Frame(
                    Result("PDC elettrica",
                           inst,
                           [zone |-> zone,
                            Quf |-> PDC_Quf[zone],
                            Prated_kW |-> prated_kw,
                            Qu_kWht |-> q_u,
                            Ci_eur_per_kWht |-> ci,
                            Ei_kWht |-> e_i,
                            kp |-> kp,
                            SCOP |-> scop,
                            COP35 |-> cop35],
                           notes),
                    inst))
    IN  IF ci_r.raised THEN ci_r
        ELSE IF lower_strip(pdc_type) = "fixed_double_duct"
        THEN IF cop35 = None
             THEN Raise("ValueError", "fixed_double_duct richiede COP35.")
             ELSE IF Get(cop35)[1] = 0
             THEN Raise("ZeroDivisionError", "float division by zero")
             ELSE LET kp_eff == kp
                      e_i == RMul(RMul(q_u, RSub(Flt(1), RDiv(Flt(1), Get(cop35)))), kp_eff)
                  IN  Finish(ci_r.val, e_i,
                             <<Note("fixed_double_duct: usato COP35 e kp=2.6 (come da Regole).", <<>>)>>)
        ELSE IF scop = None
             THEN Raise("ValueError", "Serve SCOP (oppure usa fixed_double_duct con COP35).")
             ELSE IF Get(scop)[1] = 0
             THEN Raise("ZeroDivisionError", "float division by zero")
             ELSE LET e_i == RMul(RMul(q_u, RSub(Flt(1), RDiv(Flt(1), Get(scop)))), kp)
                  IN  Finish(ci_r.val, e_i, <<>>)

calc_pdc_elettrica(zone, pdc_type, prated_kw, scop, kp, cop35) ==
    IF zone \notin DOMAIN PDC_Quf THEN Raise("KeyError", zone)
    ELSE
    LET q_u == RMul(prated_kw, Flt(PDC_Quf[zone]))
        ci_r == pdc_ci(pdc_type, prated_kw)
        Finish(ci, e_i, notes) ==
            LET ia == RMul(e_i, ci)
                default_n == IF RLe(prated_kw, Flt(35)) THEN 2 ELSE 5
                inst == Installments(ia, default_n)
            IN  Return(Frame(
                    Result("PDC elettrica",
                           inst,
                           [zone |-> zone,
                            Quf |-> PDC_Quf[zone],
                            Prated_kW |-> prated_kw,
                            Qu_kWht |-> q_u,
                            Ci_eur_per_kWht |-> ci,
                            Ei_kWht |-> e_i,
                            kp |-> kp,
                            SCOP |-> scop,
                            COP35 |-> cop35],
                           notes),
                    inst))
    IN  IF ci_r.raised THEN ci_r
        ELSE IF lower_strip(pdc_type) = "fixed_double_duct"
        THEN IF cop35 = None
             THEN Raise("ValueError", "fixed_double_duct richiede COP35.")
             ELSE IF Get(cop35)[1] = 0
             THEN Raise("ZeroDivisionError", "float division by zero")
             ELSE LET kp_eff == Tenths(26)
                      e_i == RMul(RMul(q_u, RSub(Flt(1), RDiv(Flt(1), Get(cop35)))), kp_eff)
                  IN  Finish(ci_r.val, e_i,
                             <<Note("fixed_double_duct: usato COP35 e kp=2.6 (come da Regole).", <<>>)>>)
        ELSE IF scop = None
             THEN Raise("ValueError", "Serve SCOP (oppure usa fixed_double_duct con COP35).")
             ELSE IF Get(scop)[1] = 0
             THEN Raise("ZeroDivisionError", "float division by zero")
             ELSE LET e_i == RMul(RMul(q_u, RSub(Flt(1), RDiv(Flt(1), Get(scop)))), kp)
                  IN  Finish(ci_r.val, e_i, <<>>)

-----------------------------------------------------------------------------
(* Hybrid / bivalent systems                                               *)

\* hybrid_k with the boiler band split below 35 kW
hybrid_k_strict(system_type, boiler_pn_kw) ==
    LET t == lower_strip(system_type)
    IN  CASE t = "ibrido_factory_made" -> Return(Hundredths(125))
          [] t = "bivalente_addon" ->
               IF RLt(boiler_pn_kw, Flt(35)) THEN Return(Flt(1)) ELSE Return(Tenths(11))
          [] OTHER -> Raise("ValueError", "system_type deve essere: ibrido_factory_made | bivalente_addon")

hybrid_k(system_type, boiler_pn_kw) ==
    LET t == lower_strip(system_type)
    IN  CASE t = "ibrido_factory_made" -> Return(Hundredths(125))
          [] t = "bivalente_addon" ->
               IF RLe(boiler_pn_kw, Flt(35)) THEN Return(Flt(1)) ELSE Return(Tenths(11))
          [] OTHER -> Raise("ValueError", "system_type deve essere: ibrido_factory_made | bivalente_addon")

\* the frame of calc_ibrido also holds base, the heat-pump Result it was built on
IbridoFrame(result, inst, base_result) ==
    Frame(result, inst) @@ [base |-> base_result]

\* calc_ibrido with notes built by base.notes.append(...): the list is shared
calc_ibrido_shared_notes(zone, system_type, boiler_pn_kw, pdc_type, prated_kw, scop, kp, cop35) ==
    LET base_r == calc_pdc_elettrica(zone, pdc_type, prated_kw, scop, kp, cop35)
        k_r == hybrid_k(system_type, boiler_pn_kw)
    IN  IF base_r.raised THEN base_r
        ELSE IF k_r.raised THEN k_r
        ELSE
        LET b == base_r.val.result
            k == k_r.val
            default_n == IF RLe(prated_kw, Flt(35)) THEN 2 ELSE 5
            ia == RMul(RMul(b.details.Ei_kWht, b.details.Ci_eur_per_kWht), k)
            inst == Installments(ia, default_n)
            notes == Append(b.notes, Note("Applicato k (Tabella 18).", <<k>>))
        IN  Return(IbridoFrame(
                Result("Sistema ibrido/bivalente (add-on)",
                       inst,
                       b.details @@ [system_type |-> system_type,
                                     boiler_Pn_kW |-> boiler_pn_kw,
                                     k |-> k],
                       notes),
                inst, [b EXCEPT !.notes = notes]))

calc_ibrido(zone, system_type, boiler_pn_kw, pdc_type, prated_kw, scop, kp, cop35) ==
    LET base_r == calc_pdc_elettrica(zone, pdc_type, prated_kw, scop, kp, cop35)
        k_r == hybrid_k(system_type, boiler_pn_kw)
    IN  IF base_r.raised THEN base_r
        ELSE IF k_r.raised THEN k_r
        ELSE
        LET b == base_r.val.result
            k == k_r.val
            default_n == IF RLe(prated_kw, Flt(35)) THEN 2 ELSE 5
            ia == RMul(RMul(b.details.Ei_kWht, b.details.Ci_eur_per_kWht), k)
            inst == Installments(ia, default_n)
        IN  Return(IbridoFrame(
                Result("Sistema ibrido/bivalente (add-on)",
                       inst,
                       b.details @@ [system_type |-> system_type,
                                     boiler_Pn_kW |-> boiler_pn_kw,
                                     k |-> k],
                       b.notes \o <<Note("Applicato k (Tabella 18).", <<k>>)>>),
                inst, b))

-----------------------------------------------------------------------------
(* Biomass                                                                 *)

BIOMASS_HR_table ==
    [A |-> 600, B |-> 850, C |-> 1100, D |-> 1400, E |-> 1700, F |-> 1800]

biomass_ci(device, pn_kw) ==
    LET d == lower_strip(device)
    IN  CASE d = "caldaia" ->
               IF RLe(pn_kw, Flt(35)) THEN Return(Thousandths(60))
               ELSE IF RLe(pn_kw, Flt(500)) THEN Return(Thousandths(25))
               ELSE Return(Thousandths(20))
          [] d = "stufa_termocamino_legna" -> Return(Thousandths(45))
          [] d = "stufa_termocamino_pellet" -> Return(Thousandths(55))
          [] OTHER -> Raise("ValueError", "device: caldaia | stufa_termocamino_legna | stufa_termocamino_pellet")

biomass_ce_strict(reduction_pp_percent) ==
    IF RLt(reduction_pp_percent, Flt(20)) THEN Tenths(10)
    ELSE IF RLt(reduction_pp_percent, Flt(50)) THEN Tenths(12)
    ELSE Tenths(15)

biomass_ce(reduction_pp_percent) ==
    IF RLe(reduction_pp_percent, Flt(20)) THEN Tenths(10)
    ELSE IF RLe(reduction_pp_percent, Flt(50)) THEN Tenths(12)
    ELSE Tenths(15)

\* math.log on the powers the model passes, to three decimals; a domain error
\* for an argument that is not positive
math_log(x) ==
    IF x[1] <= 0 THEN Raise("ValueError", "math domain error")
    ELSE CASE x = Tenths(5) -> Return(Thousandths(-693))
           [] x = Flt(1) -> Return(Flt(0))
           [] x = Flt(30) -> Return(Thousandths(3401))
           [] x = Flt(35) -> Return(Thousandths(3555))
           [] x = Tenths(351) -> Return(Thousandths(3558))
           [] x = Flt(200) -> Return(Thousandths(5298))
           [] x = Flt(500) -> Return(Thousandths(6215))
           [] x = Tenths(5001) -> Return(Thousandths(6215))

calc_biomassa(zone, device, pn_kw, reduction_pp_percent) ==
    IF zone \notin DOMAIN BIOMASS_HR THEN Raise("KeyError", zone)
    ELSE
    LET hr == BIOMASS_HR[zone]
        ci_r == biomass_ci(device, pn_kw)
        ce == biomass_ce(reduction_pp_percent)
        d == lower_strip(device)
        Finish(ci, ia) ==
            LET inst == Installments(ia, IF RLe(pn_kw, Flt(35)) THEN 2 ELSE 5)
            IN  Return(Frame(
                    Result("Biomassa",
                           inst,
                           [zone |-> zone,
                            Pn_kW |-> pn_kw,
                            hr |-> hr,
                            Ci_eur_per_kWht |-> ci,
                            Ce |-> ce,
                            reduction_PP_percent |-> reduction_pp_percent,
                            formula |-> IF d = "caldaia" THEN "Pn*hr*Ci*Ce"
                                        ELSE "3.35*ln(Pn)*hr*Ci*Ce"],
                           <<>>),
                    inst))
    IN  IF ci_r.raised THEN ci_r
        ELSE IF d = "caldaia"
        THEN Finish(ci_r.val, RMul(RMul(RMul(pn_kw, Flt(hr)), ci_r.val), ce))
        ELSE LET ln_r == math_log(pn_kw)
             IN  IF ln_r.raised THEN ln_r
                 ELSE Finish(ci_r.val,
                             RMul(RMul(RMul(RMul(Hundredths(335), ln_r.val), Flt(hr)),
                                       ci_r.val), ce))

-----------------------------------------------------------------------------
(* Solar thermal                                                           *)

\* unit prices in hundredths of a euro, one row per application key
SOLAR_CI_table ==
    [acs |-> <<35, 32, 13, 12, 11>>,
     acs_risc_bassaT_rete |-> <<36, 33, 13, 12, 11>>,
     concentrazione |-> <<38, 35, 13, 12, 11>>,
     solar_cooling |-> <<43, 40, 17, 15, 14>>]

\* max(sl_m2, 1e-9): every positive area the model passes is above 1e-9
max_sl_eps(sl_m2) == IF sl_m2[1] > 0 THEN sl_m2 ELSE <<1, 1000000000>>

\* The inputs on which the decimal value of abs(sl_calc - sl_m2) / sl_m2 is
\* exactly 0.05 and binary64 arithmetic gives a quotient above the double
\* 0.05: <<modules_n, module_ag_m2, sl_m2>>.  6 * 2.1 is 12.600000000000001
\* in binary64 and the quotient 0.05000000000000012, whereas 10 * 2.1 is 21.0
\* and 100 * 2.1 is 210.0, whose quotients are the double 0.05 itself.
binary64_above_005 == {<<6, Tenths(21), Flt(12)>>}

\* abs(sl_calc - sl_m2) / max(sl_m2, 1e-9) > 0.05 as binary64 evaluates it:
\* away from 0.05 the exact quotient decides (the nearest other quotient of
\* the inputs is 5e-4 away), at a decimal quotient of exactly 0.05 the
\* rounding of the product and of the quotient does
area_mismatch(sl_calc, sl_m2, modules_n, module_ag_m2) ==
    LET dev == RDiv(RAbs(RSub(sl_calc, sl_m2)), max_sl_eps(sl_m2))
    IN  IF dev = Hundredths(5)
        THEN <<modules_n, module_ag_m2, sl_m2>> \in binary64_above_005
        ELSE RLt(Hundredths(5), dev)

calc_solare_termico(application, sl_m2, modules_n, module_ag_m2, collector_kind, q_kwh_per_year_per_module, ql_mj_per_year_per_module) ==
    LET app == lower_strip(application)
    IN  IF app \notin DOMAIN SOLAR_CI
        THEN Raise("ValueError", "application: acs | acs_risc_bassaT_rete | concentrazione | solar_cooling")
        ELSE
        LET sl_calc == RMul(Flt(modules_n), module_ag_m2)
            notes == IF area_mismatch(sl_calc, sl_m2, modules_n, module_ag_m2)
                     THEN <<Note("Nota: Sl fornita differisce da moduli*Ag. Uso Sl fornita.",
                                 <<sl_m2, _round2(sl_calc)>>)>>
                     ELSE <<>>
            band == _band_index_sl(sl_m2)
            ci == Hundredths(SOLAR_CI[app][band + 1])
            Finish(qu) ==
                LET ia == RMul(RMul(ci, qu), sl_m2)
                    default_n == IF RLe(sl_m2, Flt(50)) THEN 2 ELSE 5
                    inst == Installments(ia, default_n)
                IN  Return(Frame(
                        Result("Solare termico",
                               inst,
                               [application |-> app,
                                Sl_m2 |-> sl_m2,
                                Ci_eur_per_kWht |-> ci,
                                band_index |-> band,
                                collector_kind |-> collector_kind,
                                modules_n |-> modules_n,
                                module_Ag_m2 |-> module_ag_m2,
                                Qu_kWht_per_m2 |-> qu],
                               notes),
                        inst))
        IN  IF collector_kind = "factory_made"
            THEN IF ql_mj_per_year_per_module = None
                 THEN Raise("ValueError", "factory_made richiede QL (MJ/anno per modulo).")
                 ELSE IF module_ag_m2[1] = 0
                 THEN Raise("ZeroDivisionError", "float division by zero")
                 ELSE Finish(RDiv(RDiv(Get(ql_mj_per_year_per_module), Tenths(36)),
                                  module_ag_m2))
            ELSE IF q_kwh_per_year_per_module = None
                 THEN Raise("ValueError", "piano_sottovuoto/concentrazione richiede Qcol o Qsol (kWht/anno per modulo).")
                 ELSE IF module_ag_m2[1] = 0
                 THEN Raise("ZeroDivisionError", "float division by zero")
                 ELSE Finish(RDiv(Get(q_kwh_per_year_per_module), module_ag_m2))

-----------------------------------------------------------------------------
(* PV + storage add-on                                                     *)

\* pv_cftv_max with the upper bound of each band excluded
pv_cftv_max_strict(p_kw) ==
    IF RLt(p_kw, Flt(20)) THEN Return(Flt(1500))
    ELSE IF RLt(p_kw, Flt(200)) THEN Return(Flt(1200))
    ELSE IF RLt(p_kw, Flt(600)) THEN Return(Flt(1100))
    ELSE IF RLt(p_kw, Flt(1000)) THEN Return(Flt(1050))
    ELSE Raise("ValueError", "PFTV fuori range (max 1000 kW in tabella).")

pv_cftv_max(p_kw) ==
    IF RLe(p_kw, Flt(20)) THEN Return(Flt(1500))
    ELSE IF RLe(p_kw, Flt(200)) THEN Return(Flt(1200))
    ELSE IF RLe(p_kw, Flt(600)) THEN Return(Flt(1100))
    ELSE IF RLe(p_kw, Flt(1000)) THEN Return(Flt(1050))
    ELSE Raise("ValueError", "PFTV fuori range (max 1000 kW in tabella).")

calc_pv_accumulo(pdc_total_incentive_eur, p_pv_kw, cost_pv_eur, storage_kwh, cost_storage_eur, bonus_pp, public_building_100pct) ==
    LET perc == IF public_building_100pct THEN Flt(1)
                ELSE RAdd(Hundredths(20), RDiv(Flt(bonus_pp), Flt(100)))
        notes0 == IF public_building_100pct
                  THEN <<Note("Edificio pubblico: percentuale spesa incentivata 100%.", <<>>)>>
                  ELSE <<Note("%spesa = 20% + bonus pp", <<Flt(bonus_pp), RMul(perc, Flt(100))>>)>>
        cap_r == pv_cftv_max(p_pv_kw)
    IN  IF p_pv_kw[1] = 0 THEN Raise("ZeroDivisionError", "float division by zero")
        ELSE IF cap_r.raised THEN cap_r
        ELSE
        LET cftv == RMin(RDiv(cost_pv_eur, p_pv_kw), cap_r.val)
            cacc == IF storage_kwh[1] > 0
                    THEN RMin(RDiv(cost_storage_eur, storage_kwh), Flt(1000))
                    ELSE Flt(0)
            itot_raw == RMul(perc, RAdd(RMul(cftv, p_pv_kw), RMul(cacc, storage_kwh)))
            itot == RMin(itot_raw, pdc_total_incentive_eur)
            notes == imax_notes(notes0, itot, itot_raw)
            inst == AddonInstallments(itot)
        IN  Return(Frame(
                Result("FV + accumulo (add-on)",
                       inst,
                       [P_pv_kW |-> p_pv_kw,
                        CFTV_eur_per_kW_used |-> cftv,
                        storage_kWh |-> storage_kwh,
                        CACC_eur_per_kWh_used |-> cacc,
                        perc |-> perc,
                        itot_raw |-> itot_raw,
                        Imax_pdc |-> pdc_total_incentive_eur],
                       notes),
                inst))

-----------------------------------------------------------------------------
(* EV charging add-on                                                      *)

\* ev_cost_max ending in a default ceiling instead of the final raise
ev_cost_max_default(category, power_kw) ==
    LET c == lower_strip(category)
    IN  CASE c = "a_mono" -> Return(Flt(2400))
          [] c = "a_tri" -> Return(Flt(8400))
          [] c = "b_22_50" ->
               IF power_kw = None THEN Raise("ValueError", "b_22_50 richiede power_kw.")
               ELSE Return(RMul(Flt(1200), Get(power_kw)))
          [] c = "b_50_100" -> Return(Flt(60000))
          [] OTHER -> Return(Flt(110000))

ev_cost_max(category, power_kw) ==
    LET c == lower_strip(category)
    IN  CASE c = "a_mono" -> Return(Flt(2400))
          [] c = "a_tri" -> Return(Flt(8400))
          [] c = "b_22_50" ->
               IF power_kw = None THEN Raise("ValueError", "b_22_50 richiede power_kw.")
               ELSE Return(RMul(Flt(1200), Get(power_kw)))
          [] c = "b_50_100" -> Return(Flt(60000))
          [] c = "b_gt100" -> Return(Flt(110000))
          [] OTHER -> Raise("ValueError", "Categoria non valida.")

\* calc_ev paying on the eligible cost as declared, without min(C, Cmax)
calc_ev_cost_uncapped(pdc_total_incentive_eur, eligible_cost_eur, category, power_kw) ==
    LET cmax_r == ev_cost_max(category, power_kw)
    IN  IF cmax_r.raised THEN cmax_r
        ELSE
        LET cmax == cmax_r.val
            cost_used == eligible_cost_eur
            itot_raw == RMul(Hundredths(30), cost_used)
            itot == RMin(itot_raw, pdc_total_incentive_eur)
            notes0 == <<Note("Costo usato = min(C, Cmax); incentivo = 30% del costo usato.",
                             <<_round2(cost_used)>>)>>
            notes == imax_notes(notes0, itot, itot_raw)
            inst == AddonInstallments(itot)
        IN  Return(Frame(
                Result("EV charging privata (add-on)",
                       inst,
                       [eligible_cost_eur |-> eligible_cost_eur,
                        Cmax_eur |-> cmax,
                        cost_used_eur |-> cost_used,
                        itot_raw |-> itot_raw,
                        Imax_pdc |-> pdc_total_incentive_eur,
                        category |-> category,
                        power_kw |-> power_kw],
                       notes),
                inst))

calc_ev(pdc_total_incentive_eur, eligible_cost_eur, category, power_kw) ==
    LET cmax_r == ev_cost_max(category, power_kw)
    IN  IF cmax_r.raised THEN cmax_r
        ELSE
        LET cmax == cmax_r.val
            cost_used == RMin(eligible_cost_eur, cmax)
            itot_raw == RMul(Hundredths(30), cost_used)
            itot == RMin(itot_raw, pdc_total_incentive_eur)
            notes0 == <<Note("Costo usato = min(C, Cmax); incentivo = 30% del costo usato.",
                             <<_round2(cost_used)>>)>>
            notes == imax_notes(notes0, itot, itot_raw)
            inst == AddonInstallments(itot)
        IN  Return(Frame(
                Result("EV charging privata (add-on)",
                       inst,
                       [eligible_cost_eur |-> eligible_cost_eur,
                        Cmax_eur |-> cmax,
                        cost_used_eur |-> cost_used,
                        itot_raw |-> itot_raw,
                        Imax_pdc |-> pdc_total_incentive_eur,
                        category |-> category,
                        power_kw |-> power_kw],
                       notes),
                inst))

-----------------------------------------------------------------------------
(* Caller wrapper                                                          *)

\* try: return fn(), None / except Exception as e: return None, str(e)
_safe_run(r) == IF r.raised THEN <<None, Some(r.msg)>> ELSE <<Some(r.val.result), None>>

-----------------------------------------------------------------------------
(* Inputs                                                                  *)

Zones == {"A", "D", "E", "Z"}

PdcTypes ==
    {"aria_acqua", "aria_aria_split", "aria_aria_vrf", "aria_aria_rooftop",
     "acqua_aria", "acqua_acqua", "salamoia_aria", "salamoia_acqua",
     "fixed_double_duct", " Aria_Acqua ", "caldaia"}

PratedValues == {Flt(10), Flt(12), Tenths(121), Flt(35), Tenths(351), Flt(200)}

ScopValues == {None, Some(Flt(0)), Some(Flt(3)), Some(Flt(4))}

KpValues == {Flt(1), Tenths(15)}

Cop35Values == {None, Some(Tenths(32))}

SystemTypes == {"ibrido_factory_made", "bivalente_addon", "Bivalente_Addon ", "trivalente"}

BoilerValues == {Flt(35), Tenths(351)}

IbridoZones == {"D", "E"}

IbridoPdcTypes == {"aria_acqua", "aria_aria_vrf", "fixed_double_duct", "caldaia"}

IbridoPratedValues == {Flt(10), Tenths(121), Flt(35), Flt(200)}

IbridoScopValues == {None, Some(Flt(4))}

Devices ==
    {"caldaia", "CALDAIA", "stufa_termocamino_legna", "stufa_termocamino_pellet",
     "aria_acqua"}

PnValues ==
    {Flt(0), Tenths(5), Flt(1), Flt(30), Flt(35), Tenths(351), Flt(200), Flt(500),
     Tenths(5001)}

ReductionValues == {Flt(0), Flt(20), Tenths(201), Flt(30), Flt(50), Tenths(501)}

Applications ==
    {"acs", " ACS", "acs_risc_bassaT_rete", "concentrazione", "solar_cooling", "piscina"}

SlValues ==
    {Flt(12), Tenths(121), Tenths(199), Flt(20), Flt(50), Tenths(501), Flt(200), Tenths(2001),
     Flt(500), Tenths(5001)}

ModulesValues == {6, 10, 100}

ModuleAgValues == {Flt(2), Tenths(21)}

CollectorKinds == {"piano_sottovuoto", "factory_made"}

QValues == {None, Some(Flt(1200))}

QlValues == {None, Some(Flt(1325))}

\* a primary generator's total incentive: an amount in whole cents
ImaxValues == {Flt(0), Flt(3150), Flt(15000), Hundredths(1500002), Flt(50000)}

PpvValues ==
    {Flt(0), Flt(6), Flt(20), Tenths(201), Flt(200), Tenths(2001), Flt(600),
     Tenths(6001), Flt(1000), Tenths(10001)}

CostPvValues == {Flt(0), Flt(9000), Flt(1200000)}

StorageValues == {Flt(0), Flt(10)}

CostStorageValues == {Flt(0), Flt(6000), Flt(12000)}

BonusValues == {0, 5, 10, 15}

EligibleCostValues == {Flt(0), Flt(3000), Flt(50001), Flt(400000)}

EvCategories == {"a_mono", "A_Mono", "a_tri", "b_22_50", "b_50_100", "b_gt100", "c_fast"}

EvPowerValues == {None, Some(Flt(30)), Some(Flt(50))}

-----------------------------------------------------------------------------
(* The program: one button press runs one calculator under _safe_run, the  *)
(* page shows the outcome, and the script waits for the next press.        *)

\* the invocations whose outcome is kept for a later comparison
Probe(f, a) ==
    \/ f = "calc_pdc_elettrica" /\ a.zone = "D" /\ a.pdc_type = "aria_acqua"
         /\ a.prated_kw = Flt(10) /\ a.scop = Some(Flt(4)) /\ a.kp = Flt(1)
         /\ a.cop35 = None
    \/ f = "calc_biomassa" /\ a.zone = "E" /\ a.device = "aria_acqua"
         /\ a.pn_kw = Flt(30) /\ a.reduction_pp_percent = Flt(30)

Init ==
    /\ PDC_Quf = PDC_Quf_table
    /\ BIOMASS_HR = BIOMASS_HR_table
    /\ SOLAR_CI = SOLAR_CI_table
    /\ pc = "idle"
    /\ fn = "none"
    /\ args = <<>>
    /\ ret = None
    /\ out = <<None, None>>
    /\ base = None
    /\ memo = None

\* res, err = _safe_run(lambda: f(**a)), the calculator ending as r
Run(f, a, r) ==
    /\ pc' = "returned"
    /\ fn' = f
    /\ args' = a
    /\ ret' = Some(r)
    /\ out' = _safe_run(r)
    /\ base' = IF f = "calc_ibrido" /\ ~r.raised THEN Some(r.val.base) ELSE None
    /\ UNCHANGED <<tables, memo>>

Run_calc_pdc_elettrica ==
    /\ pc = "idle"
    /\ \E zone \in Zones, pdc_type \in PdcTypes, prated_kw \in PratedValues,
          scop \in ScopValues, kp \in KpValues, cop35 \in Cop35Values :
           Run("calc_pdc_elettrica",
               [zone |-> zone, pdc_type |-> pdc_type, prated_kw |-> prated_kw,
                scop |-> scop, kp |-> kp, cop35 |-> cop35],
               calc_pdc_elettrica(zone, pdc_type, prated_kw, scop, kp, cop35))

Run_calc_ibrido ==
    /\ pc = "idle"
    /\ \E zone \in IbridoZones, system_type \in SystemTypes, boiler_pn_kw \in BoilerValues,
          pdc_type \in IbridoPdcTypes, prated_kw \in IbridoPratedValues,
          scop \in IbridoScopValues, kp \in KpValues, cop35 \in Cop35Values :
           Run("calc_ibrido",
               [zone |-> zone, system_type |-> system_type, boiler_pn_kw |-> boiler_pn_kw,
                pdc_type |-> pdc_type, prated_kw |-> prated_kw,
                scop |-> scop, kp |-> kp, cop35 |-> cop35],
               calc_ibrido(zone, system_type, boiler_pn_kw, pdc_type, prated_kw,
                           scop, kp, cop35))

Run_calc_biomassa ==
    /\ pc = "idle"
    /\ \E zone \in Zones, device \in Devices, pn_kw \in PnValues,
          reduction_pp_percent \in ReductionValues :
           Run("calc_biomassa",
               [zone |-> zone, device |-> device, pn_kw |-> pn_kw,
                reduction_pp_percent |-> reduction_pp_percent],
               calc_biomassa(zone, device, pn_kw, reduction_pp_percent))

Run_calc_solare_termico ==
    /\ pc = "idle"
    /\ \E application \in Applications, sl_m2 \in SlValues, modules_n \in ModulesValues,
          module_ag_m2 \in ModuleAgValues, collector_kind \in CollectorKinds,
          q \in QValues, ql \in QlValues :
           Run("calc_solare_termico",
               [application |-> application, sl_m2 |-> sl_m2, modules_n |-> modules_n,
                module_ag_m2 |-> module_ag_m2, collector_kind |-> collector_kind,
                q_kwh_per_year_per_module |-> q, ql_mj_per_year_per_module |-> ql],
               calc_solare_termico(application, sl_m2, modules_n, module_ag_m2,
                                   collector_kind, q, ql))

Run_calc_pv_accumulo ==
    /\ pc = "idle"
    /\ \E imax \in ImaxValues, p_pv_kw \in PpvValues, cost_pv_eur \in CostPvValues,
          storage_kwh \in StorageValues, cost_storage_eur \in CostStorageValues,
          bonus_pp \in BonusValues, public \in BOOLEAN :
           Run("calc_pv_accumulo",
               [pdc_total_incentive_eur |-> imax, p_pv_kw |-> p_pv_kw,
                cost_pv_eur |-> cost_pv_eur, storage_kwh |-> storage_kwh,
                cost_storage_eur |-> cost_storage_eur, bonus_pp |-> bonus_pp,
                public_building_100pct |-> public],
               calc_pv_accumulo(imax, p_pv_kw, cost_pv_eur, storage_kwh,
                                cost_storage_eur, bonus_pp, public))

Run_calc_ev ==
    /\ pc = "idle"
    /\ \E imax \in ImaxValues, eligible_cost_eur \in EligibleCostValues,
          category \in EvCategories, power_kw \in EvPowerValues :
           Run("calc_ev",
               [pdc_total_incentive_eur |-> imax, eligible_cost_eur |-> eligible_cost_eur,
                category |-> category, power_kw |-> power_kw],
               calc_ev(imax, eligible_cost_eur, category, power_kw))

\* the page has shown the message or the Result; the script run ends and
\* nothing of the invocation is kept but the tables
Rerun ==
    /\ pc = "returned"
    /\ pc' = "idle"
    /\ fn' = "none"
    /\ args' = <<>>
    /\ ret' = None
    /\ out' = <<None, None>>
    /\ base' = None
    /\ \/ memo' = memo
       \/ /\ Probe(fn, args)
          /\ memo' = Some([fn |-> fn, args |-> args, ret |-> ret, out |-> out])
    /\ UNCHANGED tables

Next ==
    \/ Run_calc_pdc_elettrica
    \/ Run_calc_ibrido
    \/ Run_calc_biomassa
    \/ Run_calc_solare_termico
    \/ Run_calc_pv_accumulo
    \/ Run_calc_ev
    \/ Rerun

Spec == Init /\ [][Next]_vars

-----------------------------------------------------------------------------
(* Properties                                                              *)

Returned == pc = "returned"

\* the invocation ended with a Result
Ok == Returned /\ out[1] # None

Res == Get(out[1])

Fr == Get(ret).val

Cents(x) == _round2_cents(x)

Generators == {"calc_pdc_elettrica", "calc_ibrido", "calc_biomassa", "calc_solare_termico"}

Addons == {"calc_pv_accumulo", "calc_ev"}

ClampNote == Note("Applicato vincolo Imax = Itot generatore (PDC).", <<>>)

HasNote(n) == \E i \in 1..Len(Res.notes) : Res.notes[i] = n

\* the unrounded amount that annual_incentive_eur shows
AnnualShown == IF Res.n_rates # 1 THEN Fr.ia ELSE Fr.itot

\* |total - annual * n_rates| on the rounded fields, in cents
RoundingGap ==
    Abs(Cents(Res.total_incentive_eur) - Res.n_rates * Cents(Res.annual_incentive_eur))

\* C1 as stated: on the rounded fields of every Result,
\* total_incentive_eur = annual_incentive_eur * n_rates.
C1_TotalIsAnnualTimesRates ==
    Ok => Res.total_incentive_eur = RMul(Res.annual_incentive_eur, Flt(Res.n_rates))

\* C1 amended: the unrounded amounts satisfy total = annual * n_rates exactly
\* and each field is its rounding; on the rounded fields the product is exact
\* for a single installment and off by at most 1 cent for 2 installments and
\* 3 cents for 5.
C1_TotalIsAnnualTimesRatesUpToRounding ==
    Ok => /\ Fr.itot = RMul(AnnualShown, Flt(Res.n_rates))
          /\ Res.annual_incentive_eur = _round2(AnnualShown)
          /\ Res.total_incentive_eur = _round2(Fr.itot)
          /\ Res.n_rates = 1 => RoundingGap = 0
          /\ Res.n_rates = 2 => RoundingGap <= 1
          /\ Res.n_rates = 5 => RoundingGap <= 3

\* a payment split in 5 whose rounded fields do not multiply out
C1_Witness == Ok /\ Res.n_rates = 5 /\ RoundingGap > 0

\* the default number of installments the claim gives each calculator
DefaultRates ==
    CASE fn \in {"calc_pdc_elettrica", "calc_ibrido"} ->
           IF RLe(args.prated_kw, Flt(35)) THEN 2 ELSE 5
      [] fn = "calc_biomassa" -> IF RLe(args.pn_kw, Flt(35)) THEN 2 ELSE 5
      [] fn = "calc_solare_termico" -> IF RLe(args.sl_m2, Flt(50)) THEN 2 ELSE 5
      [] fn \in Addons -> 2

\* C2: n_rates is 1 exactly when the unrounded total is <= 15000 and is the
\* calculator's default otherwise (2 or 5 by power or area, 2 for the
\* add-ons); it is always in {1, 2, 5}, and in {1, 2} for the add-ons.
C2_RatesByThreshold ==
    Ok => /\ Res.n_rates = (IF RLe(Fr.itot, Flt(15000)) THEN 1 ELSE DefaultRates)
          /\ Res.n_rates = 1 <=> RLe(Fr.itot, Flt(15000))
          /\ fn \in Generators => Fr.itot = RMul(Fr.ia, Flt(DefaultRates))
          /\ Res.n_rates \in {1, 2, 5}
          /\ fn \in Addons => Res.n_rates \in {1, 2}

\* a total of exactly 15000 paid in a single installment
C2_Witness ==
    Ok /\ fn = "calc_biomassa" /\ Fr.itot = Flt(15000) /\ Res.n_rates = 1
       /\ DefaultRates = 5

\* C3: every monetary amount of every Result is non-negative.
C3_AmountsNonNegative ==
    Ok => /\ Res.annual_incentive_eur[1] >= 0
          /\ Res.total_incentive_eur[1] >= 0
          /\ Res.annual_rate_eur[1] >= 0

\* the raw PV incentive, perc * (cftv * p_pv_kw + cacc * storage_kwh)
PvRaw ==
    RMul(Res.details.perc,
         RAdd(RMul(Res.details.CFTV_eur_per_kW_used, args.p_pv_kw),
              RMul(Res.details.CACC_eur_per_kWh_used, args.storage_kwh)))

\* C4: in calc_pv_accumulo a raw incentive above the ceiling gives a total
\* equal to the ceiling and the clamp advisory; a raw incentive not above it
\* gives the raw incentive and no advisory; the total never exceeds the ceiling.
C4_PvClamp ==
    (Ok /\ fn = "calc_pv_accumulo") =>
        /\ RLt(args.pdc_total_incentive_eur, PvRaw) =>
              /\ Res.total_incentive_eur = args.pdc_total_incentive_eur
              /\ HasNote(ClampNote)
        /\ RLe(PvRaw, args.pdc_total_incentive_eur) =>
              /\ Res.total_incentive_eur = _round2(PvRaw)
              /\ Fr.itot = PvRaw
              /\ ~HasNote(ClampNote)
        /\ RLe(Res.total_incentive_eur, args.pdc_total_incentive_eur)

\* the ceiling binds on a positive ceiling
C4_Witness ==
    /\ Ok /\ fn = "calc_pv_accumulo"
    /\ RLt(args.pdc_total_incentive_eur, PvRaw)
    /\ RLt(Flt(0), args.pdc_total_incentive_eur)
    /\ HasNote(ClampNote)

CeilingTypes == {"aria_aria_split", "fixed_double_duct"}

BandedTypes ==
    {"aria_aria_vrf", "aria_aria_rooftop", "aria_acqua", "acqua_aria", "acqua_acqua",
     "salamoia_aria", "salamoia_acqua"}

\* the efficiency coefficient the technology's branch needs is supplied
CoefficientGiven ==
    IF lower_strip(args.pdc_type) = "fixed_double_duct"
    THEN args.cop35 # None /\ args.cop35 # Some(Flt(0))
    ELSE args.scop # None /\ args.scop # Some(Flt(0))

\* C5: a heat pump of a technology with the 12 kW ceiling fails for every
\* rated power above 12 and succeeds for every rated power in (0, 12]; a
\* technology without a ceiling never fails on power.
C5_PowerCeiling ==
    (Returned /\ fn = "calc_pdc_elettrica" /\ args.zone \in DOMAIN PDC_Quf_table) =>
        /\ (lower_strip(args.pdc_type) \in CeilingTypes /\ RLt(Flt(12), args.prated_kw))
              => out[1] = None /\ Get(ret).exc = "ValueError"
        /\ (lower_strip(args.pdc_type) \in CeilingTypes /\ RLe(args.prated_kw, Flt(12))
              /\ RLt(Flt(0), args.prated_kw) /\ CoefficientGiven)
              => Ok
        /\ (lower_strip(args.pdc_type) \in BandedTypes /\ CoefficientGiven) => Ok

\* a split heat pump of exactly 12 kW is accepted
C5_Witness ==
    /\ Ok /\ fn = "calc_pdc_elettrica" /\ args.pdc_type = "aria_aria_split"
    /\ args.prated_kw = Flt(12)

\* Tabella 9 as the claim reads it, in thousandths of a euro per kWht: the
\* price of the <= 35 kW band and of the > 35 kW band
CiLow ==
    [aria_aria_split |-> 70, aria_aria_vrf |-> 150, aria_aria_rooftop |-> 150,
     aria_acqua |-> 150, acqua_aria |-> 160, acqua_acqua |-> 160,
     salamoia_aria |-> 160, salamoia_acqua |-> 160]

CiHigh ==
    [aria_aria_vrf |-> 55, aria_aria_rooftop |-> 55, aria_acqua |-> 60,
     acqua_aria |-> 60, acqua_acqua |-> 60, salamoia_aria |-> 60,
     salamoia_acqua |-> 60]

\* Quf[zone] * Prated * (1 - 1/SCOP) * kp * Ci(type, Prated)
PdcFormula ==
    LET t == lower_strip(args.pdc_type)
        ci == IF RLe(args.prated_kw, Flt(35)) THEN CiLow[t] ELSE CiHigh[t]
    IN  RMul(RMul(RMul(RMul(Flt(PDC_Quf_table[args.zone]), args.prated_kw),
                       RSub(Flt(1), RDiv(Flt(1), Get(args.scop)))),
                  args.kp),
             Thousandths(ci))

\* a heat pump paid on its SCOP
PdcOnScop ==
    Ok /\ fn = "calc_pdc_elettrica" /\ lower_strip(args.pdc_type) # "fixed_double_duct"

\* zone=D, type=aria_acqua, Prated=10, SCOP=4.0, kp=1.0
PdcExample ==
    /\ PdcOnScop /\ args.zone = "D" /\ args.pdc_type = "aria_acqua"
    /\ args.prated_kw = Flt(10) /\ args.scop = Some(Flt(4)) /\ args.kp = Flt(1)

\* C6 as stated: the annual incentive is Quf * Prated * (1 - 1/SCOP) * kp * Ci
\* with Ci from the band of Prated, and the example's Result reports annual
\* incentive 1575.00, total 3150.00 and one installment of 3150.00.
C6_PdcFormulaAndExample ==
    /\ PdcOnScop => Fr.ia = PdcFormula
    /\ PdcExample => /\ Res.annual_incentive_eur = Flt(1575)
                     /\ Res.total_incentive_eur = Flt(3150)
                     /\ Res.n_rates = 1
                     /\ Res.annual_rate_eur = Flt(3150)

\* C6 amended: the formula gives the annual incentive before the collapse; in
\* the example that amount is 1575.00, and because the payment collapses to
\* one installment the Result reports annual_incentive_eur = total = 3150.00.
C6_PdcFormulaAndExampleCollapsed ==
    /\ PdcOnScop => Fr.ia = PdcFormula
    /\ PdcExample => /\ Fr.ia = Flt(1575)
                     /\ Res.annual_incentive_eur = Flt(3150)
                     /\ Res.total_incentive_eur = Flt(3150)
                     /\ Res.n_rates = 1
                     /\ Res.annual_rate_eur = Flt(3150)

\* the example has run, and so has a heat pump of exactly 35 kW on another row
C6_Witness == PdcExample /\ args.cop35 = None

\* Pn * hr[zone] * Ci * Ce with the bands of Tabelle 10-13 as the claim reads them
BoilerFormula ==
    LET ci == IF RLe(args.pn_kw, Flt(35)) THEN 60
              ELSE IF RLe(args.pn_kw, Flt(500)) THEN 25 ELSE 20
        ce == IF RLe(args.reduction_pp_percent, Flt(20)) THEN 10
              ELSE IF RLe(args.reduction_pp_percent, Flt(50)) THEN 12 ELSE 15
    IN  RMul(RMul(RMul(args.pn_kw, Flt(BIOMASS_HR_table[args.zone])), Thousandths(ci)),
             Tenths(ce))

Boiler == Ok /\ fn = "calc_biomassa" /\ lower_strip(args.device) = "caldaia"

\* zone=E, device=caldaia, Pn=30, reduction=30%
BoilerExample ==
    /\ Boiler /\ args.zone = "E" /\ args.device = "caldaia" /\ args.pn_kw = Flt(30)
    /\ args.reduction_pp_percent = Flt(30)

\* C7: for a boiler the annual incentive is Pn * hr[zone] * Ci * Ce with Ci
\* 0.060 / 0.025 / 0.020 split at 35 and 500 kW and Ce 1.0 / 1.2 / 1.5 split at
\* 20% and 50%, upper bounds inclusive; the example computes 3672.00 a year,
\* 7344.00 in total, paid in one installment.
C7_BoilerFormulaAndExample ==
    /\ Boiler => Fr.ia = BoilerFormula
    /\ BoilerExample => /\ Fr.ia = Flt(3672)
                        /\ Res.total_incentive_eur = Flt(7344)
                        /\ Res.n_rates = 1

\* a boiler at the inclusive bounds of both tables
C7_Witness ==
    Boiler /\ args.pn_kw = Flt(500) /\ args.reduction_pp_percent = Flt(20)

\* the per-area yield of the collector kind
SolarQu ==
    IF args.collector_kind = "factory_made"
    THEN RDiv(RDiv(Get(args.ql_mj_per_year_per_module), Tenths(36)), args.module_ag_m2)
    ELSE RDiv(Get(args.q_kwh_per_year_per_module), args.module_ag_m2)

SolarYieldGiven ==
    IF args.collector_kind = "factory_made"
    THEN args.ql_mj_per_year_per_module # None
    ELSE args.q_kwh_per_year_per_module # None

SolarBand ==
    IF RLe(args.sl_m2, Flt(12)) THEN 0
    ELSE IF RLe(args.sl_m2, Flt(50)) THEN 1
    ELSE IF RLe(args.sl_m2, Flt(200)) THEN 2
    ELSE IF RLe(args.sl_m2, Flt(500)) THEN 3 ELSE 4

\* the Result has the band of the declared area, the application's price at
\* that band, and annual incentive = price * yield * declared area
SolarResultAsClaimed ==
    /\ Ok
    /\ Res.details.band_index = SolarBand
    /\ Res.details.Ci_eur_per_kWht =
          Hundredths(SOLAR_CI_table[Res.details.application][SolarBand + 1])
    /\ Fr.ia = RMul(RMul(Res.details.Ci_eur_per_kWht, SolarQu), args.sl_m2)

\* acs, declared area 20, 10 modules of 2.0 m2, direct yield 1200 per module
SolarExample ==
    /\ fn = "calc_solare_termico" /\ args.application = "acs" /\ args.sl_m2 = Flt(20)
    /\ args.modules_n = 10 /\ args.module_ag_m2 = Flt(2)
    /\ args.collector_kind = "piano_sottovuoto"
    /\ args.q_kwh_per_year_per_module = Some(Flt(1200))

\* C8: for each application of the price table the calculator takes the band
\* of the declared area, the application's unit price at that band, and pays
\* unit price * yield * declared area a year; the example has band 1, unit
\* price 0.32, annual incentive 3840.00 and one installment.
C8_SolarBandPriceFormula ==
    /\ (Returned /\ fn = "calc_solare_termico" /\ SolarYieldGiven
          /\ args.application \in DOMAIN SOLAR_CI_table)
          => /\ SolarResultAsClaimed
             /\ Res.details.Ci_eur_per_kWht =
                   Hundredths(SOLAR_CI_table[args.application][SolarBand + 1])
    /\ (Returned /\ SolarExample)
          => /\ Ok
             /\ Res.details.band_index = 1
             /\ Res.details.Ci_eur_per_kWht = Hundredths(32)
             /\ Fr.ia = Flt(3840)
             /\ Res.n_rates = 1

\* what does hold: every Result calc_solare_termico returns is as claimed
SolarResultsAsClaimed ==
    (Ok /\ fn = "calc_solare_termico") => SolarResultAsClaimed

ResultFields ==
    {"intervention", "annual_incentive_eur", "total_incentive_eur", "n_rates",
     "annual_rate_eur", "details", "notes"}

KnownPdcTypes == CeilingTypes \cup BandedTypes

\* the heat-pump inputs the claim says must be refused
PdcMustFail ==
    \/ lower_strip(args.pdc_type) \notin KnownPdcTypes
    \/ lower_strip(args.pdc_type) \in CeilingTypes /\ RLt(Flt(12), args.prated_kw)
    \/ lower_strip(args.pdc_type) = "fixed_double_duct" /\ args.cop35 = None
    \/ lower_strip(args.pdc_type) # "fixed_double_duct" /\ args.scop = None

\* the inputs the claim says must be refused, per calculator
MustFail ==
    CASE fn = "calc_pdc_elettrica" -> PdcMustFail
      [] fn = "calc_ibrido" ->
           \/ PdcMustFail
           \/ lower_strip(args.system_type) \notin {"ibrido_factory_made", "bivalente_addon"}
      [] fn = "calc_biomassa" ->
           lower_strip(args.device) \notin
               {"caldaia", "stufa_termocamino_legna", "stufa_termocamino_pellet"}
      [] fn = "calc_solare_termico" ->
           \/ args.application \notin
                 {"acs", " ACS", "acs_risc_bassaT_rete", "concentrazione", "solar_cooling"}
           \/ ~SolarYieldGiven
      [] fn = "calc_pv_accumulo" -> RLt(Flt(1000), args.p_pv_kw)
      [] fn = "calc_ev" ->
           \/ lower_strip(args.category) \notin
                 {"a_mono", "a_tri", "b_22_50", "b_50_100", "b_gt100"}
           \/ lower_strip(args.category) = "b_22_50" /\ args.power_kw = None

\* C9: every invocation ends either with a complete Result, and _safe_run
\* returns (Result, None), or with an error and its message, and _safe_run
\* returns (None, message); an unrecognised tag, a power above a table's range
\* or a missing branch-specific input always ends with the error.
C9_ResultOrError ==
    Returned =>
        /\ (out[1] = None) # (out[2] = None)
        /\ out[1] # None => /\ ~Get(ret).raised
                            /\ out = <<Some(Fr.result), None>>
                            /\ DOMAIN Res = ResultFields
        /\ out[2] # None => /\ Get(ret).raised
                            /\ out = <<None, Some(Get(ret).msg)>>
                            /\ Get(ret).msg # ""
        /\ MustFail => out[1] = None /\ out[2] # None

\* an unknown EV category has been refused with its message
C9_Witness ==
    /\ Returned /\ fn = "calc_ev" /\ args.category = "c_fast"
    /\ out = <<None, Some("Categoria non valida.")>>

C10_Repeated ==
    Returned /\ memo # None /\ Get(memo).fn = fn /\ Get(memo).args = args

\* the category tags calc_ev is offered, as ev_cost_max compares them
EvTags == {lower_strip(c) : c \in EvCategories}

\* the categories whose ceiling ev_cost_max returns without looking at power
EvFixedCategories ==
    {c \in EvTags :
        /\ ~ev_cost_max(c, None).raised
        /\ \A p \in EvPowerValues : ev_cost_max(c, p) = ev_cost_max(c, None)}

\* the categories whose ceiling is 1200 per kW of the power given
EvProportionalCategories ==
    {c \in EvTags :
        /\ ev_cost_max(c, None).raised
        /\ \A p \in EvPowerValues \ {None} :
               ev_cost_max(c, p) = Return(RMul(Flt(1200), Get(p)))}

\* 0.30 * min(eligible cost, Cmax), with the Cmax the Result reports
EvRaw == RMul(Hundredths(30), RMin(args.eligible_cost_eur, Res.details.Cmax_eur))

\* what C11 says of one invocation of calc_ev: the ceiling is independent of
\* power for a fixed category and 1200 per kW for b_22_50, which alone needs
\* power; total = min(0.30 * min(C, Cmax), Imax); the clamp advisory is
\* there exactly when Imax binds; the total never exceeds Imax.
EvAsClaimed ==
    LET c == lower_strip(args.category)
    IN  /\ c \in EvFixedCategories =>
              Ok /\ Res.details.Cmax_eur = ev_cost_max(c, None).val
        /\ (c = "b_22_50" /\ args.power_kw # None) =>
              Ok /\ Res.details.Cmax_eur = RMul(Flt(1200), Get(args.power_kw))
        /\ (c = "b_22_50" /\ args.power_kw = None) =>
              out = <<None, Some("b_22_50 richiede power_kw.")>>
        /\ Ok => /\ Fr.itot = RMin(EvRaw, args.pdc_total_incentive_eur)
                 /\ Res.total_incentive_eur = _round2(Fr.itot)
                 /\ HasNote(ClampNote) <=> RLt(args.pdc_total_incentive_eur, EvRaw)
                 /\ RLe(Res.total_incentive_eur, args.pdc_total_incentive_eur)

\* C11 as stated: calc_ev returns total = min(0.30 * min(C, Cmax), Imax) with
\* the clamp advisory exactly when Imax binds, and of the categories three
\* have a fixed ceiling and one, b_22_50, a ceiling of 1200 per kW.
C11_EvThreeFixedCeilings ==
    (Returned /\ fn = "calc_ev") =>
        /\ EvAsClaimed
        /\ Cardinality(EvFixedCategories) = 3
        /\ EvProportionalCategories = {"b_22_50"}

\* C11 amended: the same, with four categories of fixed ceiling: a_mono 2400,
\* a_tri 8400, b_50_100 60000 and b_gt100 110000.
C11_EvFourFixedCeilings ==
    (Returned /\ fn = "calc_ev") =>
        /\ EvAsClaimed
        /\ EvFixedCategories = {"a_mono", "a_tri", "b_50_100", "b_gt100"}
        /\ EvProportionalCategories = {"b_22_50"}
        /\ (Ok /\ lower_strip(args.category) = "a_mono") => Res.details.Cmax_eur = Flt(2400)
        /\ (Ok /\ lower_strip(args.category) = "a_tri") => Res.details.Cmax_eur = Flt(8400)
        /\ (Ok /\ lower_strip(args.category) = "b_50_100") => Res.details.Cmax_eur = Flt(60000)
        /\ (Ok /\ lower_strip(args.category) = "b_gt100") => Res.details.Cmax_eur = Flt(110000)

\* a 30 kW point of category b_22_50 whose cost is cut to 36000 and whose
\* incentive of 10800 is cut again to a positive primary-generator total
C11_Witness ==
    /\ Ok /\ fn = "calc_ev" /\ args.category = "b_22_50"
    /\ args.power_kw = Some(Flt(30))
    /\ RLt(Res.details.Cmax_eur, args.eligible_cost_eur)
    /\ EvRaw = Flt(10800)
    /\ RLt(Flt(0), args.pdc_total_incentive_eur)
    /\ HasNote(ClampNote)

\* calc_pdc_elettrica on the heat-pump inputs of the current invocation
PdcOnSameInputs ==
    calc_pdc_elettrica(args.zone, args.pdc_type, args.prated_kw, args.scop, args.kp,
                       args.cop35)

\* Tabella 18 as the claim reads it
ClaimedK ==
    IF lower_strip(args.system_type) = "ibrido_factory_made" THEN Hundredths(125)
    ELSE IF RLe(args.boiler_pn_kw, Flt(35)) THEN Flt(1) ELSE Tenths(11)

Ibrido == Ok /\ fn = "calc_ibrido"

\* C12: the annual incentive of calc_ibrido before the collapse is k times
\* that of calc_pdc_elettrica on the same heat-pump inputs, with k = 1.25 for
\* ibrido_factory_made, 1.0 for bivalente_addon with boiler power <= 35 and
\* 1.1 above 35; the default number of installments follows the heat pump's
\* rated power (2 if <= 35 else 5), and the collapse to one installment is
\* decided on the multiplied total.
C12_IbridoMultiplier ==
    Ibrido =>
        LET default_n == IF RLe(args.prated_kw, Flt(35)) THEN 2 ELSE 5
            itot == RMul(RMul(PdcOnSameInputs.val.ia, ClaimedK), Flt(default_n))
        IN  /\ ~PdcOnSameInputs.raised
            /\ lower_strip(args.system_type) \in {"ibrido_factory_made", "bivalente_addon"}
            /\ Res.details.k = ClaimedK
            /\ Fr.ia = RMul(PdcOnSameInputs.val.ia, ClaimedK)
            /\ Fr.default_n = default_n
            /\ Fr.default_n = PdcOnSameInputs.val.default_n
            /\ Fr.itot = itot
            /\ Res.total_incentive_eur = _round2(itot)
            /\ Res.n_rates = (IF RLe(itot, Flt(15000)) THEN 1 ELSE default_n)

\* a factory-made hybrid paid in 2 installments on a heat pump that alone
\* would be paid in one, with a boiler above 35 kW and a heat pump at 35 kW
C12_Witness ==
    /\ Ibrido /\ args.system_type = "ibrido_factory_made"
    /\ args.prated_kw = Flt(35) /\ RLt(Flt(35), args.boiler_pn_kw)
    /\ Res.n_rates = 2
    /\ PdcOnSameInputs.val.result.n_rates = 1

\* a bivalent add-on with a boiler of exactly 35 kW, and one just above
C12_BoilerAt35 ==
    /\ Ibrido /\ lower_strip(args.system_type) = "bivalente_addon"
    /\ args.boiler_pn_kw = Flt(35) /\ Res.details.k = Flt(1)

C12_BoilerAbove35 ==
    /\ Ibrido /\ lower_strip(args.system_type) = "bivalente_addon"
    /\ RLt(Flt(35), args.boiler_pn_kw) /\ Res.details.k = Tenths(11)
    /\ RLt(Flt(35), args.prated_kw) /\ Fr.default_n = 5

OverrideNote == Note("fixed_double_duct: usato COP35 e kp=2.6 (come da Regole).", <<>>)

\* the amounts and the schedule of a Result
Payment(r) ==
    [annual_incentive_eur |-> r.annual_incentive_eur,
     total_incentive_eur |-> r.total_incentive_eur,
     n_rates |-> r.n_rates,
     annual_rate_eur |-> r.annual_rate_eur]

\* the current heat-pump or hybrid invocation with kp and scop replaced
WithKpScop(kp, scop) ==
    IF fn = "calc_pdc_elettrica"
    THEN calc_pdc_elettrica(args.zone, args.pdc_type, args.prated_kw, scop, kp, args.cop35)
    ELSE calc_ibrido(args.zone, args.system_type, args.boiler_pn_kw, args.pdc_type,
                     args.prated_kw, scop, kp, args.cop35)

HeatPump == Ok /\ fn \in {"calc_pdc_elettrica", "calc_ibrido"}

DoubleDuct == HeatPump /\ lower_strip(args.pdc_type) = "fixed_double_duct"

\* C13: for fixed_double_duct calc_pdc_elettrica and calc_ibrido compute with
\* adjustment factor 2.6 and COP35 whatever kp and scop the caller gives: the
\* same invocation with another kp or another scop returns the same annual
\* incentive, total, installment count and per-installment amount, and the
\* Result carries the override advisory; for every other technology the
\* caller's kp is the factor used and the advisory is absent.
C13_DoubleDuctOverride ==
    /\ DoubleDuct =>
          /\ Res.details.Ei_kWht =
                RMul(RMul(Res.details.Qu_kWht,
                          RSub(Flt(1), RDiv(Flt(1), Get(args.cop35)))),
                     Tenths(26))
          /\ HasNote(OverrideNote)
          /\ \A kp \in KpValues, scop \in ScopValues :
                /\ ~WithKpScop(kp, scop).raised
                /\ Payment(WithKpScop(kp, scop).val.result) = Payment(Res)
                /\ WithKpScop(kp, scop).val.ia = Fr.ia
    /\ (HeatPump /\ ~DoubleDuct) =>
          /\ Res.details.Ei_kWht =
                RMul(RMul(Res.details.Qu_kWht,
                          RSub(Flt(1), RDiv(Flt(1), Get(args.scop)))),
                     args.kp)
          /\ ~HasNote(OverrideNote)
          /\ \A kp \in KpValues :
                WithKpScop(kp, args.scop).val.ia = RMul(RDiv(Fr.ia, args.kp), kp)

\* a fixed_double_duct heat pump run with a kp other than 1 and 2.6 and
\* with a SCOP given, whose Result is the one of kp = 1 and no SCOP
C13_Witness ==
    /\ DoubleDuct /\ fn = "calc_pdc_elettrica"
    /\ args.kp = Tenths(15) /\ args.scop = Some(Flt(3))
    /\ RLt(Flt(0), Res.total_incentive_eur)
    /\ Payment(Res) = Payment(WithKpScop(Flt(1), None).val.result)

\* the same through calc_ibrido
C13_IbridoDoubleDuct ==
    DoubleDuct /\ fn = "calc_ibrido" /\ args.kp = Tenths(15) /\ HasNote(OverrideNote)

\* modules_n * module_ag_m2 of the current invocation
SolarSlCalc == RMul(Flt(args.modules_n), args.module_ag_m2)

\* |modules_n * module_ag_m2 - declared area| / declared area
SolarDeviation == RDiv(RAbs(RSub(SolarSlCalc, args.sl_m2)), args.sl_m2)

AreaNote ==
    Note("Nota: Sl fornita differisce da moduli*Ag. Uso Sl fornita.",
         <<args.sl_m2, _round2(SolarSlCalc)>>)

\* calc_solare_termico on a recognised application with the yield it needs
SolarAccepted ==
    /\ Returned /\ fn = "calc_solare_termico"
    /\ lower_strip(args.application) \in DOMAIN SOLAR_CI_table
    /\ SolarYieldGiven

\* the current invocation with another module count
WithModules(n) ==
    calc_solare_termico(args.application, args.sl_m2, n, args.module_ag_m2,
                        args.collector_kind, args.q_kwh_per_year_per_module,
                        args.ql_mj_per_year_per_module)

\* the check is advisory: the invocation returns a Result whose notes hold at
\* most the area note, and amounts, band and installments are those of the
\* same declared area with any other module count
AreaCheckAdvisoryOnly ==
    SolarAccepted =>
        /\ Ok
        /\ Res.notes \in {<<>>, <<AreaNote>>}
        /\ \A n \in ModulesValues :
              /\ ~WithModules(n).raised
              /\ Payment(WithModules(n).val.result) = Payment(Res)
              /\ WithModules(n).val.result.details.band_index = Res.details.band_index
              /\ WithModules(n).val.ia = Fr.ia

\* C14 as stated: the area note is emitted exactly when the deviation is
\* above 0.05, a deviation of exactly 5% emitting none; the check never
\* produces an error; amounts, band and installment count are those obtained
\* with the same declared area and a matching module count.
C14_AreaNoteAbove5Percent ==
    /\ AreaCheckAdvisoryOnly
    /\ SolarAccepted => (HasNote(AreaNote) <=> RLt(Hundredths(5), SolarDeviation))

\* what holds: the check is advisory only, and away from a deviation of
\* exactly 5% the note is there exactly when the deviation is above 5%
C14_AreaNoteOffBoundary ==
    /\ AreaCheckAdvisoryOnly
    /\ (SolarAccepted /\ SolarDeviation # Hundredths(5))
          => (HasNote(AreaNote) <=> RLt(Hundredths(5), SolarDeviation))

\* a deviation of exactly 5% with the note, and one without
C14_NoteAtExactly5Percent ==
    SolarAccepted /\ SolarDeviation = Hundredths(5) /\ HasNote(AreaNote)

C14_NoNoteAtExactly5Percent ==
    SolarAccepted /\ SolarDeviation = Hundredths(5) /\ Res.notes = <<>>

\* a deviation just above 5% with the note, on a Result equal in amounts to
\* the one of a module count within the tolerance
C14_NoteJustAbove ==
    /\ SolarAccepted /\ args.sl_m2 = Tenths(199) /\ args.modules_n = 10
    /\ args.module_ag_m2 = Tenths(21) /\ HasNote(AreaNote)

Pv == Ok /\ fn = "calc_pv_accumulo"

\* the cap table as the claim reads it, for a power of at most 1000 kW
ClaimedPvCap ==
    IF RLe(args.p_pv_kw, Flt(20)) THEN Flt(1500)
    ELSE IF RLe(args.p_pv_kw, Flt(200)) THEN Flt(1200)
    ELSE IF RLe(args.p_pv_kw, Flt(600)) THEN Flt(1100)
    ELSE Flt(1050)

ClaimedPvPerc ==
    IF args.public_building_100pct THEN Flt(1)
    ELSE RAdd(Hundredths(20), RDiv(Flt(args.bonus_pp), Flt(100)))

\* C15: in calc_pv_accumulo the percentage is 100% with the public-building
\* flag, whatever the bonus, and 20% + bonus points without it; the PV unit
\* cost is min(cost / power, cap) with cap 1500 / 1200 / 1100 / 1050 up to
\* 20 / 200 / 600 / 1000 kW inclusive, and a power above 1000 is refused;
\* the storage unit cost is min(cost / capacity, 1000) for a capacity > 0
\* and 0 otherwise, so that a storage cost declared with no capacity adds
\* nothing to the raw incentive.
C15_PvPercentageAndCaps ==
    (Returned /\ fn = "calc_pv_accumulo") =>
        /\ RLt(Flt(1000), args.p_pv_kw) =>
              out = <<None, Some("PFTV fuori range (max 1000 kW in tabella).")>>
        /\ (RLt(Flt(0), args.p_pv_kw) /\ RLe(args.p_pv_kw, Flt(1000))) => Ok
        /\ Ok =>
              /\ Res.details.perc = ClaimedPvPerc
              /\ Res.details.CFTV_eur_per_kW_used =
                    RMin(RDiv(args.cost_pv_eur, args.p_pv_kw), ClaimedPvCap)
              /\ Res.details.CACC_eur_per_kWh_used =
                    (IF RLt(Flt(0), args.storage_kwh)
                     THEN RMin(RDiv(args.cost_storage_eur, args.storage_kwh), Flt(1000))
                     ELSE Flt(0))
              /\ Res.details.itot_raw = PvRaw
              /\ args.storage_kwh = Flt(0) =>
                    Res.details.itot_raw =
                        RMul(ClaimedPvPerc,
                             RMul(RMin(RDiv(args.cost_pv_eur, args.p_pv_kw), ClaimedPvCap),
                                  args.p_pv_kw))

\* a public building with a bonus selected, a plant of exactly 20 kW priced
\* above its cap, and a storage cost declared with no capacity
C15_Witness ==
    /\ Pv /\ args.public_building_100pct /\ args.bonus_pp = 15
    /\ args.p_pv_kw = Flt(20) /\ Res.details.CFTV_eur_per_kW_used = Flt(1500)
    /\ args.storage_kwh = Flt(0) /\ RLt(Flt(0), args.cost_storage_eur)
    /\ Res.details.itot_raw = Flt(30000)

\* storage priced above its cap, without the flag
C15_StorageCapped ==
    /\ Pv /\ ~args.public_building_100pct /\ args.bonus_pp = 10
    /\ Res.details.perc = Hundredths(30)
    /\ RLt(Flt(0), args.storage_kwh) /\ Res.details.CACC_eur_per_kWh_used = Flt(1000)
    /\ RLt(Flt(1000), RDiv(args.cost_storage_eur, args.storage_kwh))

\* a plant of exactly 1000 kW is accepted at cap 1050
C15_At1000 ==
    Pv /\ args.p_pv_kw = Flt(1000) /\ Res.details.CFTV_eur_per_kW_used = Flt(1050)

=============================================================================
